---- MODULE Spec2Model ----
(***************************************************************************)
(* A model of discord/audit_logs.py: the change-set decoder                *)
(* (AuditLogChanges), the transformer registry and the lazily resolved     *)
(* AuditLogEntry.                                                          *)
(*                                                                         *)
(* Python values are modelled as records [t, v, l]: t is the value's type  *)
(* tag, v an integer payload and l a sequence of component values.  A      *)
(* numeric string "n" is StrV(n), the integer n is IntV(n); int() turns the  *)
(* first into the second.  A raised exception is a value whose tag is the  *)
(* exception's class.                                                      *)
(***************************************************************************)
EXTENDS Integers, Sequences, FiniteSets, TLC

VARIABLES
    tables,     \* the lookup surface: guild caches, state caches, the three dicts
    raw,        \* the raw audit-log entry payload
    guild_id,   \* guild.id of the guild the entry is constructed for
    pc,         \* "raw" | "constructed" | "failed" (the constructor raised)
    entry,      \* the attributes _from_data sets on the entry
    cache,      \* the entry's cached_property slots
    ret,        \* the last step's outcome: [op, val, exc, cached]; cached tells
                \* whether the property's slot was already filled
    firstRet,   \* history: the first value each property returned
    ncomp       \* history: how many times AuditLogChanges ran on this entry

vars == <<tables, raw, guild_id, pc, entry, cache, ret, firstRet, ncomp>>

----------------------------------------------------------------------------
(* Bounds *)

MaxChanges == 2       \* longest raw change list drawn in SpecDecode
MaxDecodes == 2       \* AuditLogChanges runs followed on one entry

Ids == {1, 2, 3}      \* the snowflakes the raw payloads mention
CachedIds == {1, 2}   \* the ids a populated lookup table holds

----------------------------------------------------------------------------
(* Values *)

Mk(t, v) == [t |-> t, v |-> v, l |-> <<>>]
Mk2(t, v, l) == [t |-> t, v |-> v, l |-> l]

None == Mk("None", 0)
Absent == Mk("absent", 0)          \* the key is not in the dict
Unset == Mk("unset", 0)            \* a cached_property slot not yet filled
StrV(n) == Mk("str", n)
IntV(n) == Mk("int", n)
List(l) == Mk2("list", 0, l)
Tuple(a, b) == Mk2("tuple", 0, <<a, b>>)
EmptyDict == Mk("dict", 0)

KeyError == Mk("KeyError", 0)
TypeError == Mk("TypeError", 0)
ValueError == Mk("ValueError", 0)
AttributeError == Mk("AttributeError", 0)

IsExc(x) == x.t \in {"KeyError", "TypeError", "ValueError", "AttributeError"}

\* Python truthiness of the values the code tests with `or` / `and` / `if x`.
Truthy(x) ==
    CASE x.t \in {"None", "absent"} -> FALSE
      [] x.t = "dict" -> FALSE
      [] x.t = "list" -> Len(x.l) > 0
      [] x.t = "int" -> x.v # 0
      [] OTHER -> TRUE

\* a or b
Or(a, b) == IF Truthy(a) THEN a ELSE b

\* int(x): a numeric string or an integer; None raises.
int(x) ==
    CASE x.t \in {"str", "int"} -> IntV(x.v)
      [] x.t \in {"None", "absent", "dict", "list"} -> TypeError
      [] OTHER -> ValueError

\* Object(id): requires an id (the opaque reference always carries one).
Object(id) == IF IsExc(int(id)) THEN TypeError ELSE Mk("Object", int(id).v)

\* x or Object(id): x when truthy, else an opaque reference.
OrObject(x, id) == IF Truthy(x) THEN x ELSE Object(id)

\* if x is None: x = Object(id)
ObjectIfNone(x, id) == IF x.t = "None" THEN Object(id) ELSE x

\* Object(id) with a .name attribute set afterwards.
NamedObject(id, name) == Mk2("Object", int(id).v, <<name>>)

----------------------------------------------------------------------------
(* The lookup surface *)

TableNames == {"roles", "channels", "threads", "members", "users", "integrations",
               "app_commands", "emojis", "stickers", "stage_instances",
               "scheduled_events"}

NoTables == [n \in TableNames |-> {}]
FullTables == [n \in TableNames |-> CachedIds]

Lookup(tb, name, tag, id) ==
    IF id.t = "int" /\ id.v \in tb[name] THEN Mk(tag, id.v) ELSE None

get_role(tb, id) == Lookup(tb, "roles", "Role", id)
get_channel(tb, id) == Lookup(tb, "channels", "Channel", id)
get_thread(tb, id) == Lookup(tb, "threads", "Thread", id)
get_channel_or_thread(tb, id) == Or(get_channel(tb, id), get_thread(tb, id))
get_member(tb, id) == Lookup(tb, "members", "Member", id)
get_emoji(tb, id) == Lookup(tb, "emojis", "Emoji", id)
get_sticker(tb, id) == Lookup(tb, "stickers", "GuildSticker", id)
get_stage_instance(tb, id) == Lookup(tb, "stage_instances", "StageInstance", id)
get_scheduled_event(tb, id) == Lookup(tb, "scheduled_events", "ScheduledEvent", id)
\* state._get_guild: the only guild the model's state knows is the entry's.
get_guild(e, id) == IF id.t = "int" /\ id.v = e.guild_id THEN Mk("Guild", id.v) ELSE None

_get_member(tb, user_id) ==
    IF user_id.t = "None" THEN None
    ELSE Or(get_member(tb, user_id), Lookup(tb, "users", "User", user_id))

_get_integration(tb, integration_id) ==
    IF integration_id.t = "None" THEN None
    ELSE Lookup(tb, "integrations", "PartialIntegration", integration_id)

\* The integration whose id is i belongs to the application whose id is i.
_get_integration_by_app_id(tb, application_id) ==
    IF application_id.t = "None" THEN None
    ELSE Lookup(tb, "integrations", "PartialIntegration", application_id)

_get_app_command(tb, app_command_id) ==
    IF app_command_id.t = "None" THEN None
    ELSE Lookup(tb, "app_commands", "AppCommand", app_command_id)

----------------------------------------------------------------------------
(* Action names (enums.AuditLogAction) the code tests by prefix or suffix *)

StickerActions == {"sticker_create", "sticker_update", "sticker_delete"}
PinActions == {"message_pin", "message_unpin"}
OverwriteActions == {"overwrite_create", "overwrite_update", "overwrite_delete"}
StageInstanceActions == {"stage_instance_create", "stage_instance_update",
                         "stage_instance_delete"}
AppCommandActions == {"app_command_permission_update"}

----------------------------------------------------------------------------
(* Transformers.  e is the entry (action, guild_id, _target_id), tb the    *)
(* lookup surface, d the raw value.                                        *)

_transform_timestamp(e, tb, d) ==
    IF d.t = "None" THEN None ELSE Mk2("datetime", 0, <<d>>)

_transform_color(e, tb, d) ==
    IF d.t = "int" THEN Mk("Colour", d.v) ELSE TypeError

_transform_snowflake(e, tb, d) == int(d)

_transform_channel(e, tb, d) ==
    IF d.t = "None" THEN None
    ELSE IF IsExc(int(d)) THEN int(d)
    ELSE Or(get_channel(tb, int(d)), Object(d))

_transform_member_id(e, tb, d) ==
    IF d.t = "None" THEN None
    ELSE IF IsExc(int(d)) THEN int(d)
    ELSE _get_member(tb, int(d))

_transform_guild_id(e, tb, d) ==
    IF d.t = "None" THEN None
    ELSE IF IsExc(int(d)) THEN int(d)
    ELSE get_guild(e, int(d))

\* One raw overwrite {id, type, allow, deny} is Mk2("ow", id, <<type, allow, deny>>).
OverwriteElem(e, tb, elem) ==
    LET ow == Mk2("PermissionOverwrite", 0, <<int(elem.l[2]), int(elem.l[3])>>)
        ow_type == elem.l[1]
        ow_id == IntV(elem.v)
        target == IF ow_type = StrV(0) THEN get_role(tb, ow_id)
                  ELSE IF ow_type = StrV(1) THEN _get_member(tb, ow_id)
                  ELSE None
    IN Tuple(IF target.t = "None" THEN Object(ow_id) ELSE target, ow)

_transform_overwrites(e, tb, d) ==
    IF d.t # "list" THEN TypeError
    ELSE List([i \in 1..Len(d.l) |-> OverwriteElem(e, tb, d.l[i])])

_transform_icon(e, tb, d) ==
    IF d.t = "None" THEN None
    ELSE IF e.action = "guild_update" THEN Mk2("Asset_guild_icon", e.guild_id, <<d>>)
    ELSE Mk2("Asset_role_icon", e.target_id.v, <<d>>)

_transform_avatar(e, tb, d) ==
    IF d.t = "None" THEN None ELSE Mk2("Asset_avatar", e.target_id.v, <<d>>)

_transform_cover_image(e, tb, d) ==
    IF d.t = "None" THEN None ELSE Mk2("Asset_cover_image", e.target_id.v, <<d>>)

\* path: "splashes", "banners" or "discovery-splashes"
_guild_hash_transformer(path, e, tb, d) ==
    IF d.t = "None" THEN None ELSE Mk2(path, e.guild_id, <<d>>)

\* enums.try_enum never raises: an unknown code is wrapped as it is.
_enum_transformer(enum, e, tb, d) == Mk2(enum, 0, <<d>>)

_flag_transformer(cls, e, tb, d) ==
    IF IsExc(int(d)) THEN int(d) ELSE Mk(cls, int(d).v)

_transform_type(e, tb, d) ==
    IF e.action \in StickerActions THEN _enum_transformer("StickerType", e, tb, d)
    ELSE _enum_transformer("ChannelType", e, tb, d)

\* The registry: raw key -> <<renamed key ("" for None), transformer ("" for None)>>.
TRANSFORMERS ==
    [verification_level |-> <<"", "enum:VerificationLevel">>,
     explicit_content_filter |-> <<"", "enum:ContentFilter">>,
     allow |-> <<"", "flag:Permissions">>,
     deny |-> <<"", "flag:Permissions">>,
     permissions |-> <<"", "flag:Permissions">>,
     id |-> <<"", "snowflake">>,
     color |-> <<"colour", "color">>,
     owner_id |-> <<"owner", "member_id">>,
     inviter_id |-> <<"inviter", "member_id">>,
     channel_id |-> <<"channel", "channel">>,
     afk_channel_id |-> <<"afk_channel", "channel">>,
     system_channel_id |-> <<"system_channel", "channel">>,
     system_channel_flags |-> <<"", "flag:SystemChannelFlags">>,
     widget_channel_id |-> <<"widget_channel", "channel">>,
     rules_channel_id |-> <<"rules_channel", "channel">>,
     public_updates_channel_id |-> <<"public_updates_channel", "channel">>,
     permission_overwrites |-> <<"overwrites", "overwrites">>,
     splash_hash |-> <<"splash", "hash:splashes">>,
     banner_hash |-> <<"banner", "hash:banners">>,
     discovery_splash_hash |-> <<"discovery_splash", "hash:discovery-splashes">>,
     icon_hash |-> <<"icon", "icon">>,
     avatar_hash |-> <<"avatar", "avatar">>,
     rate_limit_per_user |-> <<"slowmode_delay", "">>,
     guild_id |-> <<"guild", "guild_id">>,
     tags |-> <<"emoji", "">>,
     default_message_notifications |-> <<"default_notifications", "enum:NotificationLevel">>,
     video_quality_mode |-> <<"", "enum:VideoQualityMode">>,
     privacy_level |-> <<"", "enum:PrivacyLevel">>,
     format_type |-> <<"", "enum:StickerFormatType">>,
     type |-> <<"", "type">>,
     communication_disabled_until |-> <<"timed_out_until", "timestamp">>,
     expire_behavior |-> <<"", "enum:ExpireBehaviour">>,
     mfa_level |-> <<"", "enum:MFALevel">>,
     status |-> <<"", "enum:EventStatus">>,
     entity_type |-> <<"", "enum:EntityType">>,
     preferred_locale |-> <<"", "enum:Locale">>,
     image_hash |-> <<"cover_image", "cover_image">>]

\* transformer(entry, value) for the transformer the registry names.
Transform(tf, e, tb, d) ==
    CASE tf = "timestamp" -> _transform_timestamp(e, tb, d)
      [] tf = "color" -> _transform_color(e, tb, d)
      [] tf = "snowflake" -> _transform_snowflake(e, tb, d)
      [] tf = "channel" -> _transform_channel(e, tb, d)
      [] tf = "member_id" -> _transform_member_id(e, tb, d)
      [] tf = "guild_id" -> _transform_guild_id(e, tb, d)
      [] tf = "overwrites" -> _transform_overwrites(e, tb, d)
      [] tf = "icon" -> _transform_icon(e, tb, d)
      [] tf = "avatar" -> _transform_avatar(e, tb, d)
      [] tf = "cover_image" -> _transform_cover_image(e, tb, d)
      [] tf = "hash:splashes" -> _guild_hash_transformer("splashes", e, tb, d)
      [] tf = "hash:banners" -> _guild_hash_transformer("banners", e, tb, d)
      [] tf = "hash:discovery-splashes" ->
            _guild_hash_transformer("discovery-splashes", e, tb, d)
      [] tf = "enum:VerificationLevel" -> _enum_transformer("VerificationLevel", e, tb, d)
      [] tf = "enum:ContentFilter" -> _enum_transformer("ContentFilter", e, tb, d)
      [] tf = "enum:NotificationLevel" -> _enum_transformer("NotificationLevel", e, tb, d)
      [] tf = "enum:VideoQualityMode" -> _enum_transformer("VideoQualityMode", e, tb, d)
      [] tf = "enum:PrivacyLevel" -> _enum_transformer("PrivacyLevel", e, tb, d)
      [] tf = "enum:StickerFormatType" -> _enum_transformer("StickerFormatType", e, tb, d)
      [] tf = "enum:ExpireBehaviour" -> _enum_transformer("ExpireBehaviour", e, tb, d)
      [] tf = "enum:MFALevel" -> _enum_transformer("MFALevel", e, tb, d)
      [] tf = "enum:EventStatus" -> _enum_transformer("EventStatus", e, tb, d)
      [] tf = "enum:EntityType" -> _enum_transformer("EntityType", e, tb, d)
      [] tf = "enum:Locale" -> _enum_transformer("Locale", e, tb, d)
      [] tf = "flag:Permissions" -> _flag_transformer("Permissions", e, tb, d)
      [] tf = "flag:SystemChannelFlags" -> _flag_transformer("SystemChannelFlags", e, tb, d)
      [] tf = "type" -> _transform_type(e, tb, d)

----------------------------------------------------------------------------
(* AuditLogDiff: an open record, attribute name -> value *)

AuditLogDiff == [a \in {} |-> None]
hasattr(d, a) == a \in DOMAIN d
setattr(d, a, v) == [x \in DOMAIN d \cup {a} |-> IF x = a THEN v ELSE d[x]]
getattr(d, a) == IF hasattr(d, a) THEN d[a] ELSE AttributeError

----------------------------------------------------------------------------
(* AuditLogChanges.  A change set under construction is                    *)
(* [before, after, exc]; exc is NoExc until a step raises, and a raised    *)
(* exception ends the construction.                                        *)
(* A raw change record is [key, old_value, new_value]; a value the record  *)
(* does not carry is Absent.                                               *)

NoExc == Mk("ok", 0)
NewChanges == [before |-> AuditLogDiff, after |-> AuditLogDiff, exc |-> NoExc]
Raise(cs, x) == [cs EXCEPT !.exc = x]

\* One role stub {id, name} is Mk2("role", id, <<name>>); <<>> when it has no name.
RoleRef(tb, r) ==
    LET role_id == IntV(r.v)
        role == get_role(tb, role_id)
    IN IF role.t # "None" THEN role
       ELSE IF Len(r.l) = 0 THEN KeyError
       ELSE NamedObject(role_id, r.l[1])

\* Lines 333-346: the role references built, and the assignment to second.
SetRoles(cs, second, refs) ==
    IF \E i \in 1..Len(refs) : IsExc(refs[i]) THEN Raise(cs, KeyError)
    ELSE [cs EXCEPT ![second] = setattr(cs[second], "roles", List(refs))]

\* Mutant of EnsureRoles: first.roles is reset even when it is already set.
EnsureRoles_Reset(cs, first) ==
    [cs EXCEPT ![first] = setattr(cs[first], "roles", List(<<>>))]

\* Lines 330-331
EnsureRoles(cs, first) ==
    IF hasattr(cs[first], "roles") THEN cs
    ELSE [cs EXCEPT ![first] = setattr(cs[first], "roles", List(<<>>))]

\* Mutant of _handle_role: first.roles is not defaulted to the empty list.
_handle_role_NoDefault(cs, first, tb, elem) ==
    IF elem.t # "list" THEN Raise(cs, TypeError)
    ELSE SetRoles(cs, IF first = "before" THEN "after" ELSE "before",
                  [i \in 1..Len(elem.l) |-> RoleRef(tb, elem.l[i])])

\* _handle_role(first, second, entry, elem); first is "before" or "after".
_handle_role(cs, first, tb, elem) ==
    IF elem.t # "list" THEN Raise(EnsureRoles(cs, first), TypeError)
    ELSE SetRoles(EnsureRoles(cs, first),
                  IF first = "before" THEN "after" ELSE "before",
                  [i \in 1..Len(elem.l) |-> RoleRef(tb, elem.l[i])])

\* int(d['key']) for the keys the model's payloads use.
KeyInt(key) ==
    CASE key = "1" -> IntV(1)
      [] key = "2" -> IntV(2)
      [] key = "3" -> IntV(3)
      [] OTHER -> ValueError

\* An ApplicationCommandPermissions payload {id, type, permission} is
\* Mk2("acp", type, <<permission>>); x['type'] and x['permission']:
acp_type(x) == IF x.t = "acp" THEN IntV(x.v) ELSE KeyError
acp_permission(x) == IF x.t = "acp" THEN x.l[1] ELSE KeyError

\* dict.get(key): None when the key is absent.
get(x) == IF x.t = "absent" THEN None ELSE x

AllChannels(gid) == Mk("AllChannels", gid)

\* Lines 372-384: dispatch on permission_type, then the opaque fallback.
TargetByType(tb, target_id, permission_type) ==
    IF IsExc(permission_type) THEN permission_type
    ELSE ObjectIfNone(CASE permission_type = IntV(1) -> get_role(tb, target_id)
                        [] permission_type = IntV(2) -> _get_member(tb, target_id)
                        [] permission_type = IntV(3) -> get_channel(tb, target_id)
                        [] OTHER -> None,
                      target_id)

\* Mutant of AppCommandTarget: the permission type is dispatched on before the
\* all-channels id is tested.
AppCommandTarget_TypeFirst(e, tb, target_id, _value) ==
    IF _value.t = "None"
    THEN IF target_id.v = e.guild_id - 1 THEN AllChannels(e.guild_id) ELSE Unset
    ELSE IF ~IsExc(acp_type(_value)) /\ acp_type(_value).v \in {1, 2, 3}
    THEN TargetByType(tb, target_id, acp_type(_value))
    ELSE IF target_id.v = e.guild_id - 1 THEN AllChannels(e.guild_id)
    ELSE TargetByType(tb, target_id, acp_type(_value))

\* Lines 357-384: the target of one record; Unset stands for the early return.
AppCommandTarget(e, tb, target_id, _value) ==
    IF target_id.v = e.guild_id - 1 THEN AllChannels(e.guild_id)
    ELSE IF _value.t = "None" THEN Unset
    ELSE TargetByType(tb, target_id, acp_type(_value))

append(d, a, x) == setattr(d, a, List(Append(d[a].l, x)))

\* Lines 386-388 (which = "before") and 390-392 (which = "after")
AppendPermission(cs, which, target, value) ==
    IF value.t = "None" \/ IsExc(cs.exc) THEN cs
    ELSE IF IsExc(acp_permission(value)) THEN Raise(cs, KeyError)
    ELSE [cs EXCEPT ![which] = append(cs[which], "app_command_permissions",
                                      Tuple(target, acp_permission(value)))]

\* Lines 383-392, once the target is resolved.
AppendPermissions(cs, target, old_value, new_value) ==
    IF target.t = "unset" THEN cs
    ELSE IF IsExc(target) THEN Raise(cs, target)
    ELSE AppendPermission(AppendPermission(cs, "before", target, old_value),
                          "after", target, new_value)

\* Mutant of _handle_app_command_permissions: the permission type is read from
\* the new value first.
_handle_app_command_permissions_NewFirst(cs, e, tb, target_id, old_value, new_value) ==
    AppendPermissions(cs, AppCommandTarget(e, tb, target_id, Or(new_value, old_value)),
                      old_value, new_value)

_handle_app_command_permissions(cs, e, tb, target_id, old_value, new_value) ==
    AppendPermissions(cs, AppCommandTarget(e, tb, target_id, Or(old_value, new_value)),
                      old_value, new_value)

\* Lines 288-294: the registry's entry for attr; <<"", "">> on a miss.
Registry(attr) == IF attr \in DOMAIN TRANSFORMERS THEN TRANSFORMERS[attr] ELSE <<"", "">>

\* Mutant of Decoded: a value with no transformer is dropped, not passed through.
Decoded_NoPassThrough(transformer, e, tb, x) ==
    IF x.t = "absent" THEN None
    ELSE IF transformer # "" THEN Transform(transformer, e, tb, x)
    ELSE None

\* Lines 298-304 and 308-314: the decoded old or new value of a record.
Decoded(transformer, e, tb, x) ==
    IF x.t = "absent" THEN None
    ELSE IF transformer # "" THEN Transform(transformer, e, tb, x)
    ELSE x

\* Mutant of SetBoth: a container is written only when its value is present.
SetBoth_SkipNone(cs, attr, before, after) ==
    IF IsExc(before) THEN Raise(cs, before)
    ELSE IF IsExc(after) THEN Raise(cs, after)
    ELSE [cs EXCEPT !.before = IF before = None THEN @ ELSE setattr(@, attr, before),
                    !.after = IF after = None THEN @ ELSE setattr(@, attr, after)]

\* Lines 306 and 316
SetBoth(cs, attr, before, after) ==
    IF IsExc(before) THEN Raise(cs, before)
    ELSE IF IsExc(after) THEN Raise(cs, after)
    ELSE [cs EXCEPT !.before = setattr(cs.before, attr, before),
                    !.after = setattr(cs.after, attr, after)]

\* Lines 288-316, with the registry's entry reg for the record's key.
DecodeWith(cs, e, tb, elem, reg) ==
    SetBoth(cs, IF reg[1] # "" THEN reg[1] ELSE elem.key,
            Decoded(reg[2], e, tb, elem.old_value),
            Decoded(reg[2], e, tb, elem.new_value))

\* Lines 278-316: one record of the ordinary per-record algorithm.
DecodeElem(cs, e, tb, elem) ==
    IF elem.key \in {"$add", "$remove"} /\ elem.new_value.t = "absent"
    THEN Raise(cs, KeyError)
    ELSE IF elem.key = "$add" THEN _handle_role(cs, "before", tb, elem.new_value)
    ELSE IF elem.key = "$remove" THEN _handle_role(cs, "after", tb, elem.new_value)
    ELSE DecodeWith(cs, e, tb, elem, Registry(elem.key))

\* Lines 265-274: one record of an app_command_permission_update entry.
DecodePermission(cs, e, tb, d) ==
    IF IsExc(KeyInt(d.key)) THEN Raise(cs, KeyInt(d.key))
    ELSE _handle_app_command_permissions(cs, e, tb, KeyInt(d.key),
                                         get(d.old_value), get(d.new_value))

\* for elem in data: ... from record i on, until one raises.
RECURSIVE DecodeFrom(_, _, _, _, _)
DecodeFrom(cs, e, tb, data, i) ==
    IF i > Len(data) \/ IsExc(cs.exc) THEN cs
    ELSE DecodeFrom(IF e.action = "app_command_permission_update"
                    THEN DecodePermission(cs, e, tb, data[i])
                    ELSE DecodeElem(cs, e, tb, data[i]),
                    e, tb, data, i + 1)

\* Mutant of Alias: the alias is set on after only.
Alias_AfterOnly(cs, from, to) ==
    IF IsExc(cs.exc) \/ ~hasattr(cs.after, from) THEN cs
    ELSE [cs EXCEPT !.after = setattr(cs.after, to, cs.after[from])]

\* Lines 319-321 (from = "colour", to = "color") and 322-324.
Alias(cs, from, to) ==
    IF IsExc(cs.exc) \/ ~hasattr(cs.after, from) THEN cs
    ELSE IF ~hasattr(cs.before, from) THEN Raise(cs, AttributeError)
    ELSE [cs EXCEPT !.after = setattr(cs.after, to, cs.after[from]),
                    !.before = setattr(cs.before, to, cs.before[from])]

\* Lines 318-324: the spelling aliases.
AddAliases(cs) == Alias(Alias(cs, "colour", "color"), "expire_behavior", "expire_behaviour")

\* AuditLogChanges(entry, data)
AuditLogChanges(e, tb, data) ==
    IF e.action = "app_command_permission_update"
    THEN DecodeFrom([before |-> setattr(AuditLogDiff, "app_command_permissions", List(<<>>)),
                     after |-> setattr(AuditLogDiff, "app_command_permissions", List(<<>>)),
                     exc |-> NoExc], e, tb, data, 1)
    ELSE AddAliases(DecodeFrom(NewChanges, e, tb, data, 1))

----------------------------------------------------------------------------
(* AuditLogEntry._from_data                                                *)
(* The raw entry is [action, options, changes, target_id, user_id]; action *)
(* is the enum member try_enum gives for action_type, as                   *)
(* [name, known, target_type, category]; a target_type of "" is None.      *)

intp(x) == IF IsExc(x) THEN x ELSE int(x)

\* The first exception of a sequence of evaluated values, or NoExc.
RECURSIVE FirstExc(_)
FirstExc(vs) ==
    IF Len(vs) = 0 THEN NoExc
    ELSE IF IsExc(Head(vs)) THEN Head(vs)
    ELSE FirstExc(Tail(vs))

\* An options block is [t |-> "options", v, l, f]: f maps field name to value.
Options(f) == [t |-> "options", v |-> 0, l |-> <<>>, f |-> f]
item(x, k) == IF x.t = "options" /\ k \in DOMAIN x.f THEN x.f[k] ELSE KeyError
item_get(x, k) == IF x.t = "options" /\ k \in DOMAIN x.f THEN x.f[k] ELSE None

\* utils._get_as_snowflake(data, key)
_get_as_snowflake(x) ==
    IF x.t = "absent" THEN None
    ELSE IF ~Truthy(x) THEN x
    ELSE int(x)

Proxy(cls, fields) ==
    IF IsExc(FirstExc(fields)) THEN FirstExc(fields) ELSE Mk2(cls, 0, fields)

\* Lines 489-545: self.extra, or the exception the block raises.
Extra(action, tb, extra) ==
    LET channel_id == intp(item(extra, "channel_id"))
        count == intp(item(extra, "count"))
        instance_id == intp(item(extra, "id"))
        the_type == item_get(extra, "type")
        role == get_role(tb, instance_id)
        application_id == intp(item(extra, "application_id"))
    IN IF ~(action.known /\ Truthy(extra)) THEN None
       ELSE IF action.name = "member_prune"
       THEN Proxy("_AuditLogProxyMemberPrune",
                  <<intp(item(extra, "delete_member_days")),
                    intp(item(extra, "members_removed"))>>)
       ELSE IF action.name \in {"member_move", "message_delete"}
       THEN Proxy("_AuditLogProxyMemberMoveOrMessageDelete",
                  <<channel_id, count,
                    OrObject(get_channel_or_thread(tb, channel_id), channel_id)>>)
       ELSE IF action.name = "member_disconnect"
       THEN Proxy("_AuditLogProxyMemberDisconnect", <<count>>)
       ELSE IF action.name \in PinActions
       THEN Proxy("_AuditLogProxyPinAction",
                  <<channel_id,
                    OrObject(get_channel_or_thread(tb, channel_id), channel_id),
                    intp(item(extra, "message_id"))>>)
       ELSE IF action.name \in OverwriteActions
       THEN IF IsExc(instance_id) THEN instance_id
            ELSE IF the_type = StrV(1) THEN _get_member(tb, instance_id)
            ELSE IF the_type = StrV(0)
                 THEN IF role.t # "None" THEN role
                      ELSE NamedObject(instance_id, item_get(extra, "role_name"))
            ELSE None
       ELSE IF action.name \in StageInstanceActions
       THEN Proxy("_AuditLogProxyStageInstanceAction",
                  <<channel_id, OrObject(get_channel(tb, channel_id), channel_id)>>)
       ELSE IF action.name \in AppCommandActions
       THEN IF IsExc(application_id) THEN application_id
            ELSE OrObject(_get_integration_by_app_id(tb, application_id), application_id)
       ELSE None

\* Lines 484-556: the attributes set on the entry, and the exception raised.
EntryOf(data, gid, tb, extra, user_id, target_id) ==
    [action |-> data.action.name,
     known |-> data.action.known,
     target_type |-> data.action.target_type,
     category |-> data.action.category,
     guild_id |-> gid,
     extra |-> IF IsExc(extra) THEN None ELSE extra,
     has_changes |-> TRUE,
     changes |-> IF data.changes.t = "absent" THEN <<>> ELSE data.changes.l,
     user |-> _get_member(tb, user_id),
     target_id |-> target_id,
     exc |-> FirstExc(<<extra, user_id, target_id>>)]

_from_data(data, gid, tb) ==
    EntryOf(data, gid, tb, Extra(data.action, tb, get(data.options)),
            _get_as_snowflake(data.user_id), _get_as_snowflake(data.target_id))

----------------------------------------------------------------------------
(* The lazily computed properties.  An object state o is                   *)
(* [entry, cache, ncomp]; a call gives [o, val, exc]: the object after the *)
(* call, the value returned and the exception raised (NoExc if none).      *)

NewCache == [set |-> {}, target |-> None, category |-> None, changes |-> NewChanges,
             before |-> AuditLogDiff, after |-> AuditLogDiff]

Return(o, val) == [o |-> o, val |-> val, exc |-> NoExc]
Throw(o, x) == [o |-> o, val |-> None, exc |-> x]
Lift(o, x) == IF IsExc(x) THEN Throw(o, x) ELSE Return(o, x)

\* utils.cached_property: r is the result of running the wrapped function on o.
cached_property(name, o, r) ==
    IF name \in o.cache.set THEN Return(o, o.cache[name])
    ELSE IF IsExc(r.exc) THEN r
    ELSE Return([r.o EXCEPT !.cache = [@ EXCEPT ![name] = r.val, !.set = @ \cup {name}]],
                r.val)

\* The entry as the transformers see it.
TEntry(en) == [action |-> IF en.known THEN en.action ELSE "", guild_id |-> en.guild_id,
               target_id |-> en.target_id]

\* Lines 613-615, with obj the AuditLogChanges constructed (or its exception).
KeepChanges(o, obj) ==
    IF IsExc(obj.exc) THEN Throw([o EXCEPT !.ncomp = @ + 1], obj.exc)
    ELSE Return([o EXCEPT !.ncomp = @ + 1, !.entry.has_changes = FALSE,
                          !.entry.changes = <<>>], obj)

\* Lines 610-615
changes_body(o, tb) ==
    IF ~o.entry.has_changes THEN Throw(o, AttributeError)
    ELSE KeepChanges(o, AuditLogChanges(TEntry(o.entry), tb, o.entry.changes))

changes(o, tb) == cached_property("changes", o, changes_body(o, tb))

\* self.changes.before / self.changes.after, given what self.changes gave.
Project(r, which) == IF IsExc(r.exc) THEN r ELSE Return(r.o, r.val[which])

\* Lines 617-625
before(o, tb) == cached_property("before", o, Project(changes(o, tb), "before"))

after(o, tb) == cached_property("after", o, Project(changes(o, tb), "after"))

\* Lines 605-608
category(o, tb) == cached_property("category", o, Return(o, o.entry.category))

InviteFields == <<"max_age", "max_uses", "code", "temporary", "uses", "channel">>

\* Lines 644-658: the Invite built from the changeset r.val.
InviteFrom(r) ==
    IF IsExc(r.exc) THEN r
    ELSE IF \E i \in 1..Len(InviteFields) : ~hasattr(r.val, InviteFields[i])
    THEN Throw(r.o, AttributeError)
    ELSE Return(r.o, Mk2("Invite", 0,
             [i \in 1..(Len(InviteFields) + 1) |->
                 IF i <= Len(InviteFields) THEN r.val[InviteFields[i]]
                 ELSE IF hasattr(r.val, "inviter") THEN r.val["inviter"]
                 ELSE None]))

\* Mutant of _convert_target_invite: the two change sets are swapped.
_convert_target_invite_Swapped(o, tb) ==
    InviteFrom(IF o.entry.known /\ o.entry.action = "invite_delete"
               THEN after(o, tb) ELSE before(o, tb))

\* Lines 639-658
_convert_target_invite(o, tb) ==
    InviteFrom(IF o.entry.known /\ o.entry.action = "invite_delete"
               THEN before(o, tb) ELSE after(o, tb))

\* The target kinds for which a _convert_target_<kind> method exists.
Converters == {"guild", "channel", "user", "role", "invite", "emoji", "message",
               "stage_instance", "sticker", "thread", "guild_scheduled_event",
               "integration", "app_command", "integration_or_app_command"}

\* Mutant of _convert_target: the lookups have no opaque-reference fallback.
_convert_target_NoFallback(kind, en, tb) ==
    LET id == en.target_id IN
    CASE kind = "guild" -> Mk("Guild", en.guild_id)
      [] kind = "channel" -> get_channel(tb, id)
      [] kind \in {"user", "message"} -> _get_member(tb, id)
      [] kind = "role" -> get_role(tb, id)
      [] kind = "emoji" -> get_emoji(tb, id)
      [] kind = "stage_instance" -> get_stage_instance(tb, id)
      [] kind = "sticker" -> get_sticker(tb, id)
      [] kind = "thread" -> get_thread(tb, id)
      [] kind = "guild_scheduled_event" -> get_scheduled_event(tb, id)
      [] kind = "integration" -> _get_integration(tb, id)
      [] kind = "app_command" -> _get_app_command(tb, id)
      [] kind = "integration_or_app_command" ->
            Or(_get_integration_by_app_id(tb, id), _get_app_command(tb, id))

\* Lines 627-685, all but the invite converter: converter(target_id).
_convert_target(kind, en, tb) ==
    LET id == en.target_id IN
    CASE kind = "guild" -> Mk("Guild", en.guild_id)
      [] kind = "channel" -> OrObject(get_channel(tb, id), id)
      [] kind = "user" -> _get_member(tb, id)
      [] kind = "role" -> OrObject(get_role(tb, id), id)
      [] kind = "emoji" -> OrObject(get_emoji(tb, id), id)
      [] kind = "message" -> _get_member(tb, id)
      [] kind = "stage_instance" -> OrObject(get_stage_instance(tb, id), id)
      [] kind = "sticker" -> OrObject(get_sticker(tb, id), id)
      [] kind = "thread" -> OrObject(get_thread(tb, id), id)
      [] kind = "guild_scheduled_event" -> OrObject(get_scheduled_event(tb, id), id)
      [] kind = "integration" -> OrObject(_get_integration(tb, id), id)
      [] kind = "app_command" -> OrObject(_get_app_command(tb, id), id)
      [] kind = "integration_or_app_command" ->
            OrObject(Or(_get_integration_by_app_id(tb, id), _get_app_command(tb, id)), id)

\* Mutant of target_body: an action without a target type is not answered None.
target_body_NoKindCheck(o, tb) ==
    IF o.entry.target_type \notin Converters
    THEN IF o.entry.target_id.t = "None" THEN Return(o, None)
         ELSE Lift(o, Object(o.entry.target_id))
    ELSE IF o.entry.target_type = "invite" THEN _convert_target_invite(o, tb)
    ELSE Lift(o, _convert_target(o.entry.target_type, o.entry, tb))

\* Lines 592-603
target_body(o, tb) ==
    IF o.entry.target_type = "" THEN Return(o, None)
    ELSE IF o.entry.target_type \notin Converters
    THEN IF o.entry.target_id.t = "None" THEN Return(o, None)
         ELSE Lift(o, Object(o.entry.target_id))
    ELSE IF o.entry.target_type = "invite" THEN _convert_target_invite(o, tb)
    ELSE Lift(o, _convert_target(o.entry.target_type, o.entry, tb))

\* Mutant of target: a plain property, computed on every access.
target_Uncached(o, tb) == target_body(o, tb)

\* Line 591: the cached property over lines 592-603.
target(o, tb) == cached_property("target", o, target_body(o, tb))

\* Mutant of extra: the options block is projected when extra is read.
extra_Lazy(o, tb) ==
    Lift(o, Extra([name |-> o.entry.action, known |-> o.entry.known], tb, get(raw.options)))

\* self.extra: a plain attribute set by _from_data.
extra(o, tb) == Return(o, o.entry.extra)

----------------------------------------------------------------------------
(* Inputs *)

Act(name, kind, cat) ==
    [name |-> name, known |-> TRUE, target_type |-> kind,
     category |-> IF cat = "" THEN None ELSE Mk(cat, 0)]

\* What try_enum gives for an action_type that is no member of AuditLogAction.
UnknownAction == [name |-> "unknown", known |-> FALSE, target_type |-> "", category |-> None]

\* Members of enums.AuditLogAction with their target_type and category.
Actions ==
    {Act("guild_update", "guild", "update"),
     Act("channel_create", "channel", "create"),
     Act("overwrite_create", "channel", "create"),
     Act("kick", "user", ""),
     Act("member_prune", "user", ""),
     Act("member_move", "user", ""),
     Act("member_disconnect", "user", ""),
     Act("member_role_update", "user", "update"),
     Act("role_create", "role", "create"),
     Act("invite_create", "invite", "create"),
     Act("invite_update", "invite", "update"),
     Act("invite_delete", "invite", "delete"),
     Act("webhook_create", "webhook", "create"),
     Act("emoji_create", "emoji", "create"),
     Act("message_delete", "message", "delete"),
     Act("message_pin", "message", ""),
     Act("integration_create", "integration", "create"),
     Act("stage_instance_create", "stage_instance", "create"),
     Act("sticker_create", "sticker", "create"),
     Act("scheduled_event_create", "guild_scheduled_event", "create"),
     Act("thread_create", "thread", "create"),
     Act("app_command_update", "app_command", "update"),
     Act("app_command_permission_update", "integration_or_app_command", "update")}

ActionNamed(n) == CHOOSE a \in Actions : a.name = n

Raw(action, options, chg, target_id) ==
    [action |-> action, options |-> options, changes |-> chg,
     target_id |-> target_id, user_id |-> StrV(1)]

Rec(key, old, new) == [key |-> key, old_value |-> old, new_value |-> new]
RoleStub(id) == Mk2("role", id, <<StrV(id)>>)
Acp(type, permission) == Mk2("acp", type, <<Mk("bool", permission)>>)

\* Target scenarios: every action, with a cached, an uncached and no target id.
TargetRaws ==
    {Raw(a, Absent, Absent, t) : a \in Actions \cup {UnknownAction},
                                 t \in {Absent, StrV(1), StrV(3)}}

\* Options scenarios: each action that reads options, with blocks that are
\* complete, that lack a field, and that name a cached or an uncached id.
PruneFull == Options([delete_member_days |-> StrV(7), members_removed |-> StrV(2)])
ChannelCount(id) == Options([channel_id |-> StrV(id), count |-> StrV(2)])
CountOnly == Options([count |-> StrV(2)])
Overwrite(id, type) == Options([id |-> StrV(id), type |-> StrV(type), role_name |-> StrV(5)])

ExtraPairs ==
    {<<"member_prune", PruneFull>>,
     <<"member_prune", Options([delete_member_days |-> StrV(7)])>>,
     <<"member_move", ChannelCount(1)>>,
     <<"member_move", ChannelCount(3)>>,
     <<"member_move", CountOnly>>,
     <<"message_delete", ChannelCount(1)>>,
     <<"member_disconnect", CountOnly>>,
     <<"member_disconnect", EmptyDict>>,
     <<"message_pin", Options([channel_id |-> StrV(1), message_id |-> StrV(2)])>>,
     <<"message_pin", CountOnly>>,
     <<"overwrite_create", Overwrite(1, 0)>>,
     <<"overwrite_create", Overwrite(3, 0)>>,
     <<"overwrite_create", Overwrite(1, 1)>>,
     <<"overwrite_create", Overwrite(1, 2)>>,
     <<"overwrite_create", CountOnly>>,
     <<"stage_instance_create", ChannelCount(1)>>,
     <<"stage_instance_create", ChannelCount(3)>>,
     <<"app_command_permission_update", Options([application_id |-> StrV(1)])>>,
     <<"app_command_permission_update", Options([application_id |-> StrV(3)])>>,
     <<"kick", ChannelCount(1)>>}

ExtraRaws ==
    {Raw(ActionNamed(p[1]), p[2], Absent, StrV(1)) : p \in ExtraPairs}
    \cup {Raw(UnknownAction, PruneFull, Absent, StrV(1))}

\* Change lists of an invite entry: old and new values differ in every field.
InviteRecords ==
    <<Rec("code", StrV(11), StrV(12)),
      Rec("max_age", IntV(21), IntV(22)),
      Rec("max_uses", IntV(31), IntV(32)),
      Rec("temporary", Mk("bool", 0), Mk("bool", 1)),
      Rec("uses", IntV(41), IntV(42)),
      Rec("channel_id", StrV(1), StrV(3)),
      Rec("inviter_id", StrV(1), StrV(2))>>

InviteChangeLists ==
    {InviteRecords,
     SubSeq(InviteRecords, 1, 6),
     SubSeq(InviteRecords, 1, 3),
     <<Rec("$add", Absent, Absent)>>}

OtherChangeLists ==
    {<<Rec("name", StrV(1), StrV(2)), Rec("color", IntV(1), IntV(2))>>,
     <<Rec("$add", Absent, List(<<RoleStub(1), RoleStub(3)>>))>>,
     <<Rec("1", Acp(1, 0), Acp(1, 1)), Rec("3", Absent, Acp(3, 1))>>,
     <<Rec("id", None, StrV(2))>>}

ChangeRaws ==
    {Raw(ActionNamed(n), Absent, List(c), Absent) :
        n \in {"invite_create", "invite_update", "invite_delete"},
        c \in InviteChangeLists}
    \cup
    {Raw(a, Absent, List(c), StrV(1)) :
        a \in {ActionNamed("member_role_update"), ActionNamed("role_create"),
               ActionNamed("app_command_permission_update"), UnknownAction},
        c \in OtherChangeLists}

Raws == TargetRaws \cup ExtraRaws \cup ChangeRaws

\* The states of the lookup surface the environment moves between.
TableConfigs == {NoTables, FullTables, [FullTables EXCEPT !["members"] = {}]}

----------------------------------------------------------------------------
(* The entry's life: construction, accesses, and the environment's changes *)
(* to the lookup tables.                                                   *)

NewRet == [op |-> "", val |-> None, exc |-> NoExc, cached |-> FALSE]
NewFirst == [set |-> {}, target |-> None, extra |-> None, category |-> None,
             changes |-> NewChanges, before |-> AuditLogDiff, after |-> AuditLogDiff]
NoEntry == [_from_data(Raw(UnknownAction, Absent, Absent, Absent), 0, NoTables)
            EXCEPT !.has_changes = FALSE]

Init ==
    /\ raw \in Raws
    /\ tables \in TableConfigs
    /\ guild_id = 2
    /\ pc = "raw"
    /\ entry = NoEntry
    /\ cache = NewCache
    /\ ret = NewRet
    /\ firstRet = NewFirst
    /\ ncomp = 0

\* AuditLogEntry(users=..., integrations=..., app_commands=..., data=..., guild=...)
Constructed(en) ==
    /\ pc' = IF IsExc(en.exc) THEN "failed" ELSE "constructed"
    /\ entry' = IF IsExc(en.exc) THEN entry ELSE en
    /\ ret' = [op |-> "init", val |-> None, exc |-> en.exc, cached |-> FALSE]

Construct ==
    /\ pc = "raw"
    /\ Constructed(_from_data(raw, guild_id, tables))
    /\ UNCHANGED <<tables, raw, guild_id, cache, firstRet, ncomp>>

Obj == [entry |-> entry, cache |-> cache, ncomp |-> ncomp]

\* One access to a property: r is what the call gives.
Access(op, r) ==
    /\ pc = "constructed"
    /\ r.o.ncomp <= MaxDecodes
    /\ entry' = r.o.entry
    /\ cache' = r.o.cache
    /\ ncomp' = r.o.ncomp
    /\ ret' = [op |-> op, val |-> r.val, exc |-> r.exc, cached |-> op \in cache.set]
    /\ firstRet' = IF op \in firstRet.set \/ IsExc(r.exc) THEN firstRet
                   ELSE [firstRet EXCEPT ![op] = r.val, !.set = @ \cup {op}]
    /\ UNCHANGED <<tables, raw, guild_id, pc>>

AccessExtra == Access("extra", extra(Obj, tables))
AccessCategory == Access("category", category(Obj, tables))
AccessTarget == Access("target", target(Obj, tables))
AccessChanges == Access("changes", changes(Obj, tables))
AccessBefore == Access("before", before(Obj, tables))
AccessAfter == Access("after", after(Obj, tables))

\* The caches the guild, the state and the caller own change under the entry.
MutateTables ==
    /\ pc = "constructed"
    /\ tables' \in TableConfigs \ {tables}
    /\ ret' = [NewRet EXCEPT !.op = "mutate"]
    /\ UNCHANGED <<raw, guild_id, pc, entry, cache, firstRet, ncomp>>

Next ==
    \/ Construct
    \/ AccessExtra
    \/ AccessCategory
    \/ AccessTarget
    \/ AccessChanges
    \/ AccessBefore
    \/ AccessAfter
    \/ MutateTables

Spec == Init /\ [][Next]_vars

----------------------------------------------------------------------------
(* The change-set decoder on its own: an entry already constructed, whose  *)
(* raw change list is any list of at most MaxChanges records.              *)

SeqsUpTo(S, n) == UNION {[1..k -> S] : k \in 0..n}

\* Records of an ordinary entry.
ChangeRecords ==
    {Rec("name", StrV(1), StrV(2)),
     Rec("name", Absent, StrV(3)),
     Rec("color", IntV(1), IntV(2)),
     Rec("colour", StrV(4), StrV(5)),
     Rec("expire_behavior", IntV(0), IntV(1)),
     Rec("expire_behaviour", StrV(6), StrV(7)),
     Rec("$add", Absent, List(<<RoleStub(1), RoleStub(3)>>)),
     Rec("$add", Absent, List(<<RoleStub(2)>>)),
     Rec("$remove", Absent, List(<<RoleStub(2)>>)),
     Rec("$remove", Absent, Absent),
     Rec("roles", StrV(8), StrV(9)),
     Rec("channel_id", None, StrV(1)),
     Rec("rate_limit_per_user", IntV(0), Absent),
     Rec("id", None, StrV(2))}

\* Records of an app_command_permission_update entry: the key is a target id.
PermissionRecords ==
    {Rec("1", Acp(1, 0), Acp(1, 1)),
     Rec("1", Absent, Acp(9, 1)),
     Rec("1", Absent, Absent),
     Rec("2", Acp(1, 0), Absent),
     Rec("2", Absent, Acp(2, 1)),
     Rec("3", Acp(3, 0), Acp(3, 1)),
     Rec("3", Acp(9, 1), Absent),
     Rec("3", Absent, Absent),
     Rec("2", Acp(1, 0), Acp(3, 1)),
     Rec("2", EmptyDict, Absent),
     Rec("name", StrV(1), StrV(2))}

DecodeRaws ==
    {Raw(ActionNamed("member_role_update"), Absent, List(c), StrV(1)) :
        c \in SeqsUpTo(ChangeRecords, MaxChanges)}
    \cup
    {Raw(ActionNamed("app_command_permission_update"), Absent, List(c), StrV(1)) :
        c \in SeqsUpTo(PermissionRecords, MaxChanges)}

InitDecode ==
    /\ raw \in DecodeRaws
    /\ tables \in TableConfigs
    /\ guild_id \in {2, 4}
    /\ raw.action.name = "member_role_update" => guild_id = 2
    /\ pc = "constructed"
    /\ entry = _from_data(raw, guild_id, tables)
    /\ cache = NewCache
    /\ ret = NewRet
    /\ firstRet = NewFirst
    /\ ncomp = 0

NextDecode ==
    \/ AccessChanges
    \/ AccessBefore
    \/ AccessAfter

SpecDecode == InitDecode /\ [][NextDecode]_vars

----------------------------------------------------------------------------
(* Properties of the change-set decoder (SpecDecode) *)

\* The raw change list of the entry, and the change set decoded from it.
RawChanges == IF raw.changes.t = "list" THEN raw.changes.l ELSE <<>>
Decoded_ == "changes" \in cache.set
Before == cache.changes.before
After == cache.changes.after
IsPermissionUpdate == entry.known /\ entry.action = "app_command_permission_update"

UnknownKey(k) == k \notin ({"$add", "$remove"} \cup DOMAIN TRANSFORMERS)

\* The attribute name a record writes on the two containers.
Writes(rec) ==
    IF rec.key \in {"$add", "$remove"} THEN "roles"
    ELSE IF rec.key \in DOMAIN TRANSFORMERS /\ TRANSFORMERS[rec.key][1] # ""
    THEN TRANSFORMERS[rec.key][1]
    ELSE rec.key

\* The attribute names the alias pass writes after the records of list cl.
AliasWrites(cl) ==
    {n \in {"color"} : \E i \in 1..Len(cl) : Writes(cl[i]) = "colour"}
    \cup {n \in {"expire_behaviour"} : \E i \in 1..Len(cl) : Writes(cl[i]) = "expire_behavior"}

PassedThrough(rec) ==
    /\ hasattr(Before, rec.key) /\ Before[rec.key] = get(rec.old_value)
    /\ hasattr(After, rec.key) /\ After[rec.key] = get(rec.new_value)

\* C1 as stated: once the list is decoded, every record with an unknown key has
\* its raw old and new value stored under that key on before and after.
C1_Original ==
    (Decoded_ /\ ~IsPermissionUpdate) =>
        \A i \in 1..Len(RawChanges) :
            UnknownKey(RawChanges[i].key) => PassedThrough(RawChanges[i])

\* C1 (amended): for an entry whose action is not app_command_permission_update,
\* every record with an unknown key whose attribute name is not written again
\* afterwards (by a later record or by the alias pass) has its raw old value
\* (None when absent) stored under that unchanged key on before and its raw
\* new value on after; and a list of unknown keys only never raises.
C1_PassThrough ==
    /\ (Decoded_ /\ ~IsPermissionUpdate) =>
          \A i \in 1..Len(RawChanges) :
              ( /\ UnknownKey(RawChanges[i].key)
                /\ \A j \in (i + 1)..Len(RawChanges) :
                      Writes(RawChanges[j]) # RawChanges[i].key
                /\ RawChanges[i].key \notin AliasWrites(RawChanges) )
              => PassedThrough(RawChanges[i])
    /\ ( /\ ret.op \in {"changes", "before", "after"}
         /\ ~IsPermissionUpdate
         /\ \A i \in 1..Len(RawChanges) : UnknownKey(RawChanges[i].key) )
       => ~IsExc(ret.exc)

C1_Witness ==
    /\ Decoded_ /\ ~IsPermissionUpdate
    /\ RawChanges = <<Rec("name", Absent, StrV(3)), Rec("color", IntV(1), IntV(2))>>
    /\ Before["name"] = None /\ After["name"] = StrV(3)

\* The ids of a list of role references / role stubs.
IdsOf(l) == [i \in 1..Len(l) |-> l[i].v]
Records(k) == {i \in 1..Len(RawChanges) : RawChanges[i].key = k}
RolesOnlyFrom(adds, removes) ==
    /\ Cardinality(Records("$add")) = adds
    /\ Cardinality(Records("$remove")) = removes
    /\ \A i \in 1..Len(RawChanges) :
          Writes(RawChanges[i]) = "roles" => RawChanges[i].key \in {"$add", "$remove"}
StubsOf(k) == RawChanges[CHOOSE i \in Records(k) : TRUE].new_value.l
HasRoles(d, ids) == hasattr(d, "roles") /\ d["roles"].t = "list" /\ IdsOf(d["roles"].l) = ids

\* C3: with one '$add' and one '$remove' record, in either order, after.roles
\* is the '$add' list and before.roles the '$remove' list; with a '$add' and no
\* '$remove', before.roles is the empty list (and symmetrically).
C3_RoleLists ==
    (Decoded_ /\ ~IsPermissionUpdate) =>
        /\ RolesOnlyFrom(1, 1) =>
              /\ HasRoles(After, IdsOf(StubsOf("$add")))
              /\ HasRoles(Before, IdsOf(StubsOf("$remove")))
        /\ RolesOnlyFrom(1, 0) =>
              /\ HasRoles(After, IdsOf(StubsOf("$add")))
              /\ HasRoles(Before, <<>>)
        /\ RolesOnlyFrom(0, 1) =>
              /\ HasRoles(Before, IdsOf(StubsOf("$remove")))
              /\ HasRoles(After, <<>>)

C3_Witness ==
    /\ Decoded_
    /\ RawChanges = <<Rec("$remove", Absent, List(<<RoleStub(2)>>)),
                      Rec("$add", Absent, List(<<RoleStub(1), RoleStub(3)>>))>>
    /\ IdsOf(After["roles"].l) = <<1, 3>>
    /\ IdsOf(Before["roles"].l) = <<2>>

Mirrored(d, from, to) == hasattr(d, from) /\ hasattr(d, to) /\ d[to] = d[from]

\* C4: whenever decoding produced `colour`, before and after both carry
\* `colour` and `color` with equal values; likewise `expire_behavior` and
\* `expire_behaviour`.
C4_Aliases ==
    Decoded_ =>
        /\ (hasattr(Before, "colour") \/ hasattr(After, "colour")) =>
              Mirrored(Before, "colour", "color") /\ Mirrored(After, "colour", "color")
        /\ (hasattr(Before, "expire_behavior") \/ hasattr(After, "expire_behavior")) =>
              /\ Mirrored(Before, "expire_behavior", "expire_behaviour")
              /\ Mirrored(After, "expire_behavior", "expire_behaviour")

C4_Witness ==
    /\ Decoded_
    /\ RawChanges = <<Rec("expire_behaviour", StrV(6), StrV(7)), Rec("color", IntV(1), IntV(2))>>
    /\ Before["color"] = Mk("Colour", 1) /\ After["color"] = Mk("Colour", 2)

\* The pairs a record contributes to a container's app_command_permissions
\* list come one per record that carries the value, in record order.
Carries(rec, field) == get(rec[field]).t = "acp"
PairAt(d, field, i) ==
    d["app_command_permissions"].l[
        Cardinality({j \in 1..i : Carries(RawChanges[j], field)})]
IsSentinel(rec) == ~IsExc(KeyInt(rec.key)) /\ KeyInt(rec.key).v = guild_id - 1

\* C6: in an app_command_permission_update entry, every record whose key is
\* guild.id - 1 has the all-channels sentinel as the target of each pair it
\* contributes, whatever its permission type and whichever values it carries.
C6_AllChannels ==
    (Decoded_ /\ IsPermissionUpdate) =>
        \A i \in 1..Len(RawChanges) :
            IsSentinel(RawChanges[i]) =>
                /\ Carries(RawChanges[i], "old_value") =>
                      PairAt(Before, "old_value", i).l[1] = AllChannels(guild_id)
                /\ Carries(RawChanges[i], "new_value") =>
                      PairAt(After, "new_value", i).l[1] = AllChannels(guild_id)

C6_Witness ==
    /\ Decoded_ /\ IsPermissionUpdate
    /\ guild_id = 2 /\ 1 \in tables["roles"]
    /\ RawChanges = <<Rec("2", Acp(1, 0), Absent), Rec("1", Acp(1, 0), Acp(1, 1))>>
    /\ Before["app_command_permissions"].l[2].l[1] = AllChannels(2)
    /\ After["app_command_permissions"].l[1].l[1] = AllChannels(2)

Orders(n) == {f \in [1..n -> 1..n] : \A i, j \in 1..n : f[i] = f[j] => i = j}
Permuted(cl, f) == [i \in 1..Len(cl) |-> cl[f[i]]]
SameContents(cs) == cs.before = Before /\ cs.after = After /\ ~IsExc(cs.exc)

\* C10 as stated: decoding any permutation of the list gives the same before
\* and the same after.
C10_Original ==
    Decoded_ =>
        \A f \in Orders(Len(RawChanges)) :
            SameContents(AuditLogChanges(TEntry(entry), tables, Permuted(RawChanges, f)))

\* No attribute name is written by two records; one '$add' with one '$remove'
\* is allowed.
DistinctWrites(cl) ==
    /\ \A i, j \in 1..Len(cl) :
          (i # j /\ Writes(cl[i]) = Writes(cl[j])) => {cl[i].key, cl[j].key} = {"$add", "$remove"}
    /\ Cardinality({i \in 1..Len(cl) : cl[i].key = "$add"}) <= 1
    /\ Cardinality({i \in 1..Len(cl) : cl[i].key = "$remove"}) <= 1

\* C10 (amended): for an entry whose action is not app_command_permission_update
\* and a list in which no attribute name is written by two records (one '$add'
\* with one '$remove' apart), decoding any permutation of the list gives the
\* same before and the same after.
C10_OrderIndependent ==
    (Decoded_ /\ ~IsPermissionUpdate /\ DistinctWrites(RawChanges)) =>
        \A f \in Orders(Len(RawChanges)) :
            SameContents(AuditLogChanges(TEntry(entry), tables, Permuted(RawChanges, f)))

C10_Witness ==
    /\ Decoded_ /\ ~IsPermissionUpdate
    /\ RawChanges = <<Rec("$remove", Absent, List(<<RoleStub(2)>>)),
                      Rec("$add", Absent, List(<<RoleStub(1), RoleStub(3)>>))>>
    /\ AuditLogChanges(TEntry(entry), tables, <<RawChanges[2], RawChanges[1]>>).after = After
    /\ IdsOf(After["roles"].l) = <<1, 3>>

\* The ids of the role stubs a '$add' / '$remove' record lists.
ListedIds(rec) ==
    IF get(rec.new_value).t = "list"
    THEN {get(rec.new_value).l[k].v : k \in 1..Len(get(rec.new_value).l)}
    ELSE {}
RoleIds(d) ==
    IF hasattr(d, "roles") /\ d["roles"].t = "list"
    THEN {d["roles"].l[k].v : k \in 1..Len(d["roles"].l)}
    ELSE {}
OnlyRoleRecordsWriteRoles ==
    \A i \in 1..Len(RawChanges) :
        Writes(RawChanges[i]) = "roles" => RawChanges[i].key \in {"$add", "$remove"}

\* C11 as stated: after decoding, after.roles contains the roles of every
\* '$add' record of the list and before.roles those of every '$remove' record.
C11_Appends ==
    (Decoded_ /\ ~IsPermissionUpdate /\ OnlyRoleRecordsWriteRoles) =>
        \A i \in 1..Len(RawChanges) :
            /\ RawChanges[i].key = "$add" => ListedIds(RawChanges[i]) \subseteq RoleIds(After)
            /\ RawChanges[i].key = "$remove" => ListedIds(RawChanges[i]) \subseteq RoleIds(Before)

\* C14: once a change list is decoded without error (ordinary records,
\* '$add'/'$remove' records, the alias pass, or the app_command_permission_update
\* path), before and after carry exactly the same attribute names.
C14_Aligned == Decoded_ => (DOMAIN Before = DOMAIN After)

C14_Witness ==
    /\ Decoded_ /\ ~IsPermissionUpdate
    /\ RawChanges = <<Rec("color", IntV(1), IntV(2)), Rec("$add", Absent, List(<<RoleStub(2)>>))>>
    /\ DOMAIN Before = {"colour", "color", "roles"}
    /\ Before["roles"] = List(<<>>)

\* The records of the list that carry an old / a new permission value.
Carrying(field) == {i \in 1..Len(RawChanges) : Carries(RawChanges[i], field)}
WellTyped ==
    \A i \in 1..Len(RawChanges) :
        /\ get(RawChanges[i].old_value).t \in {"acp", "None"}
        /\ get(RawChanges[i].new_value).t \in {"acp", "None"}
PermissionList(d) == d["app_command_permissions"].l

\* The target the permission type of a record names: 1 a role, 2 a member or
\* user, 3 a channel, and an opaque reference on a miss or another type.
TypeOf(rec) ==
    IF Carries(rec, "old_value") THEN rec.old_value.v ELSE rec.new_value.v
TargetOfType(rec) ==
    LET id == KeyInt(rec.key).v
        ty == TypeOf(rec)
    IN IF ty = 1 /\ id \in tables["roles"] THEN Mk("Role", id)
       ELSE IF ty = 2 /\ id \in tables["members"] THEN Mk("Member", id)
       ELSE IF ty = 2 /\ id \in tables["users"] THEN Mk("User", id)
       ELSE IF ty = 3 /\ id \in tables["channels"] THEN Mk("Channel", id)
       ELSE Mk("Object", id)
TargetOfRecord(rec) ==
    IF IsSentinel(rec) THEN AllChannels(guild_id) ELSE TargetOfType(rec)

\* C15 as stated: one pair per record with an old value on before and one per
\* record with a new value on after, in record order; a record with both values
\* contributes to both lists the target its old value's permission type names.
C15_Original ==
    (Decoded_ /\ IsPermissionUpdate /\ WellTyped) =>
        /\ Len(PermissionList(Before)) = Cardinality(Carrying("old_value"))
        /\ Len(PermissionList(After)) = Cardinality(Carrying("new_value"))
        /\ \A i \in Carrying("old_value") :
              PairAt(Before, "old_value", i).l[2] = RawChanges[i].old_value.l[1]
        /\ \A i \in Carrying("new_value") :
              PairAt(After, "new_value", i).l[2] = RawChanges[i].new_value.l[1]
        /\ \A i \in Carrying("old_value") \cap Carrying("new_value") :
              /\ PairAt(Before, "old_value", i).l[1] = TargetOfType(RawChanges[i])
              /\ PairAt(After, "new_value", i).l[1] = TargetOfType(RawChanges[i])

\* C15 (amended): one pair per record with an old value on before and one per
\* record with a new value on after, in record order; the target of every
\* pair of a record is the all-channels sentinel when the record's key is
\* guild.id - 1, and otherwise the target named by the permission type of its
\* old value if it has one, else of its new value.
C15_Accumulation ==
    (Decoded_ /\ IsPermissionUpdate /\ WellTyped) =>
        /\ Len(PermissionList(Before)) = Cardinality(Carrying("old_value"))
        /\ Len(PermissionList(After)) = Cardinality(Carrying("new_value"))
        /\ \A i \in Carrying("old_value") :
              PairAt(Before, "old_value", i) =
                  Tuple(TargetOfRecord(RawChanges[i]), RawChanges[i].old_value.l[1])
        /\ \A i \in Carrying("new_value") :
              PairAt(After, "new_value", i) =
                  Tuple(TargetOfRecord(RawChanges[i]), RawChanges[i].new_value.l[1])

\* A record with both values of different types, after a record with neither.
C15_Witness ==
    /\ Decoded_ /\ IsPermissionUpdate
    /\ guild_id = 4 /\ 2 \in tables["roles"] /\ 2 \in tables["channels"]
    /\ RawChanges = <<Rec("1", Absent, Absent), Rec("2", Acp(1, 0), Acp(3, 1))>>
    /\ PermissionList(Before) = <<Tuple(Mk("Role", 2), Mk("bool", 0))>>
    /\ PermissionList(After) = <<Tuple(Mk("Role", 2), Mk("bool", 1))>>

----------------------------------------------------------------------------
(* Properties of the entry (Spec) *)

\* C2: once target, extra or changes has returned a value, every later access
\* returns that same value without raising and without computing it again
\* (the slot is already filled, AuditLogChanges does not run), whatever
\* happened to the lookup tables in between.
C2_Memoized ==
    [][\A op \in {"target", "extra", "changes"} :
          (pc = "constructed" /\ op \in firstRet.set /\ ret'.op = op) =>
              /\ ~IsExc(ret'.exc)
              /\ ret'.val = firstRet[op]
              /\ ncomp' = ncomp
              /\ op # "extra" => ret'.cached]_vars

\* A cached target is returned although resolving it against the lookup
\* tables as they are now would give another value.
C2_Witness ==
    /\ pc = "constructed" /\ ret.op = "target" /\ ret.cached
    /\ entry.target_type = "role"
    /\ target_body(Obj, tables).val # ret.val

\* C5: the target of an invite_delete entry is built from the fields of the
\* decoded before container; that of any other entry whose target kind is
\* invite is built from after.
C5_InviteSource ==
    (ret.op = "target" /\ ~IsExc(ret.exc) /\ entry.target_type = "invite") =>
        /\ ret.val.t = "Invite"
        /\ \A i \in 1..Len(InviteFields) :
              ret.val.l[i] = IF entry.action = "invite_delete"
                             THEN cache.changes.before[InviteFields[i]]
                             ELSE cache.changes.after[InviteFields[i]]
        /\ ret.val.l[Len(InviteFields) + 1] =
              IF entry.action = "invite_delete"
              THEN (IF hasattr(cache.changes.before, "inviter")
                    THEN cache.changes.before["inviter"] ELSE None)
              ELSE (IF hasattr(cache.changes.after, "inviter")
                    THEN cache.changes.after["inviter"] ELSE None)

C5_Witness ==
    /\ ret.op = "target" /\ ~IsExc(ret.exc) /\ entry.action = "invite_delete"
    /\ ret.val.t = "Invite"
    /\ ret.val.l[3] = StrV(11)
    /\ cache.changes.after["code"] = StrV(12)

\* C7: an entry whose action_type is no known action is constructed without
\* error, has no extra, answers None for category and target, and decodes its
\* change list as an entry with an ordinary known action does.
C7_UnknownAction ==
    ~raw.action.known =>
        /\ pc # "failed"
        /\ pc = "constructed" => entry.extra = None
        /\ ret.op \in {"extra", "category", "target"} => (~IsExc(ret.exc) /\ ret.val = None)
        /\ (ret.op = "changes" /\ ~ret.cached) =>
              LET obj == AuditLogChanges([TEntry(entry) EXCEPT !.action = "kick"],
                                         tables, RawChanges)
              IN IF IsExc(obj.exc) THEN ret.exc = obj.exc
                 ELSE ~IsExc(ret.exc) /\ ret.val = obj

C7_Witness ==
    /\ ~raw.action.known /\ pc = "constructed"
    /\ raw.target_id = StrV(1) /\ 1 \in tables["members"]
    /\ "target" \in cache.set /\ "category" \in cache.set
    /\ ret.op = "changes" /\ ~IsExc(ret.exc)
    /\ hasattr(ret.val.after, "color") /\ hasattr(ret.val.after, "name")

\* C8 as stated: with id and action_type present, neither the construction
\* nor any access to extra, changes, before, after or target raises.
C8_NoError == ~IsExc(ret.exc)

\* The target kinds whose converter resolves the raw target id.
IdKinds == Converters \ {"guild", "invite"}
Miss ==
    /\ entry.target_id.t = "int"
    /\ \A n \in TableNames : entry.target_id.v \notin tables[n]

\* C9 as stated: on a lookup miss the target of every id-resolving kind is an
\* opaque reference carrying the raw id.
C9_Original ==
    (ret.op = "target" /\ ~ret.cached /\ entry.target_type \in IdKinds /\ Miss) =>
        (~IsExc(ret.exc) /\ ret.val = Mk("Object", entry.target_id.v))

\* C9 (amended): on a lookup miss the target is an opaque reference carrying
\* the raw id for every id-resolving kind but user and message; for user and
\* message it is None.  It is never an error.
C9_OpaqueOnMiss ==
    (ret.op = "target" /\ ~ret.cached /\ entry.target_type \in IdKinds /\ Miss) =>
        /\ ~IsExc(ret.exc)
        /\ ret.val = IF entry.target_type \in {"user", "message"} THEN None
                     ELSE Mk("Object", entry.target_id.v)

C9_Witness ==
    /\ ret.op = "target" /\ ~ret.cached /\ Miss
    /\ entry.target_type = "sticker" /\ raw.target_id = StrV(1)
    /\ ret.val = Mk("Object", 1)

\* C12 as stated: over any sequence of accesses to changes, before, after and
\* target, AuditLogChanges runs on the raw change list at most once; once
\* changes has returned the entry no longer holds the raw list; and before and
\* after are the two containers of that one decoder.
C12_DecodeOnce ==
    pc = "constructed" =>
        /\ ncomp <= 1
        /\ "changes" \in cache.set => (~entry.has_changes /\ entry.changes = <<>>)
        /\ "before" \in cache.set =>
              ("changes" \in cache.set /\ cache.before = cache.changes.before)
        /\ "after" \in cache.set =>
              ("changes" \in cache.set /\ cache.after = cache.changes.after)

RawOptions == get(raw.options)

\* C13 as stated: construction projects nothing, so no options block makes it
\* fail, and the first access to extra resolves the options block against the
\* lookup tables as they are at that access.
C13_Original ==
    [][/\ (pc = "raw" /\ pc' = "failed") => ~IsExc(Extra(raw.action, tables, RawOptions))
       /\ (pc = "constructed" /\ "extra" \notin firstRet.set /\ ret'.op = "extra") =>
              (~IsExc(ret'.exc) /\ ret'.val = Extra(raw.action, tables, RawOptions))]_vars

\* The fields of the options block the projection of each action indexes.
RequiredFields(name) ==
    CASE name = "member_prune" -> {"delete_member_days", "members_removed"}
      [] name \in {"member_move", "message_delete"} -> {"channel_id", "count"}
      [] name = "member_disconnect" -> {"count"}
      [] name \in PinActions -> {"channel_id", "message_id"}
      [] name \in OverwriteActions -> {"id"}
      [] name \in StageInstanceActions -> {"channel_id"}
      [] name \in AppCommandActions -> {"application_id"}
      [] OTHER -> {}
Malformed ==
    /\ raw.action.known /\ RawOptions.t = "options"
    /\ RequiredFields(raw.action.name) \ DOMAIN RawOptions.f # {}

\* C13 (amended): extra is eager.  Construction projects the options block
\* against the lookup tables as they are then (the channel of a stage-instance
\* entry is the cached channel, or an opaque reference when the channel is not
\* cached at construction); an options block lacking a field its action
\* indexes makes construction fail with KeyError; and after construction extra
\* never changes: every access returns the value construction stored,
\* whatever happens to the lookup tables.
C13_Eager ==
    [][/\ (pc = "raw" /\ Malformed) => (pc' = "failed" /\ ret'.exc = KeyError)
       /\ (pc = "raw" /\ ~Malformed /\ raw.action.name \in StageInstanceActions
               /\ RawOptions.t = "options") =>
              /\ pc' = "constructed"
              /\ entry'.extra.l[2] =
                    IF int(RawOptions.f["channel_id"]).v \in tables["channels"]
                    THEN Mk("Channel", int(RawOptions.f["channel_id"]).v)
                    ELSE Mk("Object", int(RawOptions.f["channel_id"]).v)
       /\ pc = "constructed" =>
              /\ entry'.extra = entry.extra
              /\ ret'.op = "extra" => (~IsExc(ret'.exc) /\ ret'.val = entry.extra)]_vars

\* extra is read after the channel it names left the cache: it is still the
\* channel found at construction.
C13_Witness ==
    /\ pc = "constructed" /\ ret.op = "extra"
    /\ raw.action.name = "stage_instance_create"
    /\ ret.val.t = "_AuditLogProxyStageInstanceAction"
    /\ ret.val.l[2] = Mk("Channel", 1)
    /\ 1 \notin tables["channels"]

====
